---- MODULE Spec2Model ----
(***************************************************************************)
(* The task API of backend/routes/tasks.js (GET, POST, PUT, DELETE over    *)
(* the Task collection) and the Dashboard page that calls it.              *)
(*                                                                         *)
(* POST, PUT and DELETE validate synchronously and then await exactly one  *)
(* store operation (save, findOneAndUpdate, findOneAndDelete), each of     *)
(* which the store applies atomically to one document; such a handler is   *)
(* one action, taken at the moment of its store operation.  GET awaits two *)
(* store operations (find, then countDocuments) and is two actions, so     *)
(* that other requests can run between them.                               *)
(*                                                                         *)
(* Strings whose length matters are run-length encoded: a sequence of runs *)
(* [ch, n], "n copies of ch".  Numeric query strings are digit sequences.  *)
(* A sort string is the sequence of its tokens, "-" first when present.    *)
(* Task ids are 1, 2, ... in order of creation; 0 is a malformed id.       *)
(***************************************************************************)
EXTENDS Integers, Sequences, FiniteSets, TLC

VARIABLES
  store,   \* the Task collection: id -> document, NoTask where there is none
  nextId,  \* the id the next created task gets
  get,     \* the GET between its find and its countDocuments, or NoGet
  resp,    \* the last response sent, with the request it answers
  dash,    \* the Dashboard component: its state and whether it still renders
  calls,   \* the Dashboard handler calls awaiting their request
  api      \* the useApi hook: its state and its makeRequest calls in flight

vars == <<store, nextId, get, resp, dash, calls, api>>

\* The number of tasks ever created in one behaviour.
MaxTasks == 2

\* The number of Dashboard handler calls in flight at once.
MaxCalls == 2

Users == {"A", "B"}

TaskIds == 1..MaxTasks

NoTask == [none |-> TRUE]

NoGet == [none |-> TRUE]

NoResp == [op |-> "none"]

Priorities == {"low", "medium", "high"}

MinTitleLen == 1

MaxTitleLen == 100

MaxDescriptionLen == 500

DefaultLimit == 10

DefaultSkip == 0

DefaultSort == <<"-", "createdAt">>

(***************************************************************************)
(* Strings                                                                 *)
(***************************************************************************)
Run(ch, n) == [ch |-> ch, n |-> n]

Space == " "

RECURSIVE StrLen(_)
StrLen(s) == IF s = <<>> THEN 0 ELSE Head(s).n + StrLen(Tail(s))

RECURSIVE TrimLeft(_)
TrimLeft(s) ==
  IF s = <<>> THEN <<>>
  ELSE IF Head(s).ch = Space \/ Head(s).n = 0 THEN TrimLeft(Tail(s))
  ELSE s

RECURSIVE TrimRight(_)
TrimRight(s) ==
  IF s = <<>> THEN <<>>
  ELSE IF s[Len(s)].ch = Space \/ s[Len(s)].n = 0
       THEN TrimRight(SubSeq(s, 1, Len(s) - 1))
  ELSE s

\* express-validator's trim() sanitizer: whitespace removed from both ends.
Trim(s) == TrimRight(TrimLeft(s))

\* express-validator's isLength({min, max}), on the value as it stands when
\* the validator runs.
IsLength(s, min, max) == StrLen(s) >= min /\ StrLen(s) <= max

\* express-validator turns an absent field into the empty string before a
\* standard validator sees it.
FieldStr(body, f) == IF f \in DOMAIN body THEN body[f] ELSE <<>>

RECURSIVE ParseInt(_)
\* parseInt of a string of decimal digits.
ParseInt(ds) ==
  IF ds = <<>> THEN 0 ELSE 10 * ParseInt(SubSeq(ds, 1, Len(ds) - 1)) + ds[Len(ds)]

(***************************************************************************)
(* The Task schema and the store                                           *)
(***************************************************************************)
\* The paths of the Task schema this model keeps (description, dueDate and
\* updatedAt are left out: no operation here reads them).
SchemaPaths == {"title", "completed", "priority", "user"}

\* Mongoose's required validator of a String path rejects the empty string.
TitleRequiredOk(title) == StrLen(title) > 0

Exists(id) == id \in TaskIds /\ store[id] # NoTask

\* A lookup by {_id: id} alone.
OwnedByAnyone(id, u) == Exists(id)

\* The documents matching {_id: id, user: u}.
OwnedBy(id, u) == Exists(id) /\ store[id].user = u

\* An update that replaces the document: a path the update does not carry
\* falls back to its default.
ApplyReplace(task, updates) ==
  [f \in DOMAIN task |->
     IF f \in DOMAIN updates /\ f \in SchemaPaths THEN updates[f]
     ELSE IF f = "completed" THEN FALSE
     ELSE task[f]]

\* A plain-object update is a $set of the schema paths it carries.
ApplyUpdates(task, updates) ==
  [f \in DOMAIN task |->
     IF f \in DOMAIN updates /\ f \in SchemaPaths THEN updates[f] ELSE task[f]]

(***************************************************************************)
(* POST /api/tasks                                                         *)
(***************************************************************************)
\* The validation chain of POST: each validator runs on the value the chain
\* has reached; isLength stands before trim.
PostErrors(body) ==
  {f \in {"title"} : ~IsLength(FieldStr(body, "title"), MinTitleLen, MaxTitleLen)}
  \cup {f \in {"description"} : f \in DOMAIN body
                                /\ ~IsLength(body[f], 0, MaxDescriptionLen)}
  \cup {f \in {"priority"} : f \in DOMAIN body /\ body[f] \notin Priorities}

\* The request body after the chain's sanitizers.
Sanitize(body) ==
  [f \in DOMAIN body |->
     IF f \in {"title", "description"} THEN Trim(body[f]) ELSE body[f]]

NewTask(body, u, id) ==
  [_id |-> id,
   title |-> body.title,
   completed |-> FALSE,
   priority |-> IF "priority" \in DOMAIN body THEN body.priority ELSE "medium",
   user |-> u,
   createdAt |-> id]

PostReq(u, body) ==
  LET errors == PostErrors(body)
      b == Sanitize(body)
  IN  /\ IF errors # {}
         THEN /\ resp' = [op |-> "POST", user |-> u, body |-> body, status |-> 400,
                          message |-> "Validation failed", errors |-> errors]
              /\ UNCHANGED <<store, nextId>>
         ELSE IF ~TitleRequiredOk(b.title)
         THEN \* task.save() rejects; the catch block answers
              /\ resp' = [op |-> "POST", user |-> u, body |-> body, status |-> 500,
                          message |-> "Server error creating task"]
              /\ UNCHANGED <<store, nextId>>
         ELSE /\ nextId \in TaskIds
              /\ store' = [store EXCEPT ![nextId] = NewTask(b, u, nextId)]
              /\ nextId' = nextId + 1
              /\ resp' = [op |-> "POST", user |-> u, body |-> body, status |-> 201,
                          message |-> "Task created successfully",
                          task |-> NewTask(b, u, nextId)]

Post(u, body) == PostReq(u, body) /\ UNCHANGED <<get, dash, calls, api>>

(***************************************************************************)
(* PUT /api/tasks/:id                                                      *)
(***************************************************************************)
\* isMongoId: 0 stands for a malformed id, every other id is well formed.
IsMongoId(id) == id # 0

\* The validation chain of PUT: every body field is optional().
PutErrors(id, body) ==
  {f \in {"id"} : ~IsMongoId(id)}
  \cup {f \in {"title"} : f \in DOMAIN body
                          /\ ~IsLength(body[f], MinTitleLen, MaxTitleLen)}
  \cup {f \in {"description"} : f \in DOMAIN body
                                /\ ~IsLength(body[f], 0, MaxDescriptionLen)}
  \cup {f \in {"completed"} : f \in DOMAIN body /\ body[f] \notin BOOLEAN}
  \cup {f \in {"priority"} : f \in DOMAIN body /\ body[f] \notin Priorities}

\* runValidators: the validators of the paths the update sets, run before
\* the query is sent.
UpdateValidatorsOk(updates) ==
  "title" \in DOMAIN updates => TitleRequiredOk(updates.title)

Put(u, id, body) ==
  LET errors == PutErrors(id, body)
      updates == Sanitize(body)
      req == [op |-> "PUT", user |-> u, id |-> id, body |-> body]
  IN  /\ IF errors # {}
         THEN /\ resp' = req @@ [status |-> 400, message |-> "Validation failed",
                                 errors |-> errors]
              /\ UNCHANGED store
         ELSE IF ~UpdateValidatorsOk(updates)
         THEN /\ resp' = req @@ [status |-> 500,
                                 message |-> "Server error updating task"]
              /\ UNCHANGED store
         ELSE IF OwnedBy(id, u)
         THEN /\ store' = [store EXCEPT ![id] = ApplyUpdates(@, updates)]
              /\ resp' = req @@ [status |-> 200,
                                 message |-> "Task updated successfully",
                                 task |-> ApplyUpdates(store[id], updates)]
         ELSE /\ resp' = req @@ [status |-> 404, message |-> "Task not found"]
              /\ UNCHANGED store
      /\ UNCHANGED <<nextId, get, dash, calls, api>>

(***************************************************************************)
(* DELETE /api/tasks/:id                                                   *)
(***************************************************************************)
\* A delete that leaves the document in the collection.
FindOneAndDeleteKeeps(st, id) == st

\* findOneAndDelete takes the matched document out of the collection.
FindOneAndDelete(st, id) == [st EXCEPT ![id] = NoTask]

Delete(u, id) ==
  LET req == [op |-> "DELETE", user |-> u, id |-> id]
  IN  /\ IF ~IsMongoId(id)
         THEN /\ resp' = req @@ [status |-> 400, message |-> "Validation failed",
                                 errors |-> {"id"}]
              /\ UNCHANGED store
         ELSE IF OwnedBy(id, u)
         THEN /\ store' = FindOneAndDelete(store, id)
              /\ resp' = req @@ [status |-> 200,
                                 message |-> "Task deleted successfully"]
         ELSE /\ resp' = req @@ [status |-> 404, message |-> "Task not found"]
              /\ UNCHANGED store
      /\ UNCHANGED <<nextId, get, dash, calls, api>>

(***************************************************************************)
(* GET /api/tasks                                                          *)
(***************************************************************************)
\* completed === 'true'
ParseBool(s) == s = "true"

\* A filter without the user.
MatchesAnyOwner(task, u, q) ==
  /\ "completed" \in DOMAIN q => task.completed = ParseBool(q.completed)
  /\ "priority" \in DOMAIN q => task.priority = q.priority

\* filter = {user, completed?, priority?} applied to one document.
Matches(task, u, q) ==
  /\ task.user = u
  /\ "completed" \in DOMAIN q => task.completed = ParseBool(q.completed)
  /\ "priority" \in DOMAIN q => task.priority = q.priority

Matching(u, q) == {i \in TaskIds : Exists(i) /\ Matches(store[i], u, q)}

SortOf(q) == IF "sort" \in DOMAIN q THEN q.sort ELSE DefaultSort

\* sort.startsWith('-')
Descending(sort) == sort # <<>> /\ Head(sort) = "-"

\* sort.substring(1) when descending, else sort: the field sorted on.
SortField(sort) == IF Descending(sort) THEN Tail(sort)[1] ELSE sort[1]

\* The order of the values of a path: numbers by size, strings by code unit.
SortKey(task, field) ==
  IF field = "createdAt" THEN task.createdAt
  ELSE IF field = "priority"
       THEN CASE task.priority = "high" -> 1
              [] task.priority = "low" -> 2
              [] OTHER -> 3
  ELSE IF field = "completed" THEN (IF task.completed THEN 1 ELSE 0)
  ELSE 0

InOrder(t1, t2, sort) ==
  IF Descending(sort)
  THEN SortKey(t1, SortField(sort)) >= SortKey(t2, SortField(sort))
  ELSE SortKey(t1, SortField(sort)) <= SortKey(t2, SortField(sort))

\* The orders the store may return a set of documents in under a sort: any
\* arrangement that respects the sort key (ties are in no promised order).
Orders(ids, sort) ==
  {o \in [1..Cardinality(ids) -> ids] :
     /\ \A i, j \in DOMAIN o : i # j => o[i] # o[j]
     /\ \A i, j \in DOMAIN o : i < j => InOrder(store[o[i]], store[o[j]], sort)}

LimitOf(q) == IF "limit" \in DOMAIN q THEN ParseInt(q.limit) ELSE DefaultLimit

SkipOf(q) == IF "skip" \in DOMAIN q THEN ParseInt(q.skip) ELSE DefaultSkip

Min(a, b) == IF a <= b THEN a ELSE b

\* .limit(n).skip(k) on a cursor: skip first, then limit; a limit of 0 is
\* no limit.
Window(seq, limit, skip) ==
  LET last == IF limit = 0 THEN Len(seq) ELSE Min(Len(seq), skip + limit)
  IN  SubSeq(seq, skip + 1, last)

\* await Task.find(filter).sort(sortOptions).limit(..).skip(..)
GetFindReq(u, q) ==
  /\ get = NoGet
  /\ \E o \in Orders(Matching(u, q), SortOf(q)) :
       get' = [user |-> u, q |-> q,
               tasks |-> Window([i \in DOMAIN o |-> store[o[i]]],
                                LimitOf(q), SkipOf(q))]
  /\ UNCHANGED <<store, nextId, resp>>

GetFind(u, q) == GetFindReq(u, q) /\ UNCHANGED <<dash, calls, api>>

HasMoreInclusive(total, skip, limit) == total >= skip + limit

HasMore(total, skip, limit) == total > skip + limit

\* await Task.countDocuments(filter); res.json(...)
GetCountReq ==
  /\ get # NoGet
  /\ LET total == Cardinality(Matching(get.user, get.q))
     IN  resp' = [op |-> "GET", user |-> get.user, q |-> get.q, status |-> 200,
                  tasks |-> get.tasks,
                  pagination |-> [total |-> total,
                                  limit |-> LimitOf(get.q),
                                  skip |-> SkipOf(get.q),
                                  hasMore |-> HasMore(total, SkipOf(get.q),
                                                      LimitOf(get.q))]]
  /\ get' = NoGet
  /\ UNCHANGED <<store, nextId>>

GetCount == GetCountReq /\ UNCHANGED <<dash, calls, api>>

\* useState([]), useState(true); the component is not mounted yet.
\* The number of makeRequest calls of one useApi hook in flight at a time.
MaxRequests == 3

RequestSlots == 1..MaxRequests

\* No makeRequest call in the slot.
NoCall == [idle |-> TRUE]

\* error is null.
NoError == [null |-> TRUE]

\* useState(false), useState(null).
ApiInit ==
  [loading |-> FALSE, error |-> NoError, inflight |-> [k \in RequestSlots |-> NoCall]]

DashInit ==
  [mounted |-> FALSE, tasks |-> [array |-> <<>>], loading |-> TRUE,
   crashed |-> FALSE, failed |-> FALSE]

Init ==
  /\ store = [i \in TaskIds |-> NoTask]
  /\ nextId = 1
  /\ get = NoGet
  /\ resp = NoResp
  /\ dash = DashInit
  /\ calls = {}
  /\ api = ApiInit

A1 == <<Run("a", 1)>>

PostBodies ==
  { [title |-> A1],
    [title |-> <<Run(Space, 1), Run("a", 1), Run(Space, 1)>>, priority |-> "medium"],
    [title |-> <<Run("a", 100)>>],
    [title |-> <<Run("a", 101)>>],
    [title |-> <<Run(Space, 1), Run("a", 100)>>],
    [title |-> <<Run(Space, 3)>>],
    [title |-> <<>>],
    [priority |-> "high"],
    [title |-> A1, priority |-> "urgent"],
    [title |-> A1, user |-> "B", completed |-> TRUE] }

PutBodies ==
  { [completed |-> TRUE],
    [completed |-> FALSE, priority |-> "medium"],
    [priority |-> "medium"],
    [title |-> <<Run(Space, 1), Run("a", 100)>>],
    [title |-> <<Run("a", 1), Run(Space, 1)>>, completed |-> TRUE],
    [title |-> <<Run(Space, 3)>>],
    [priority |-> "urgent"],
    [user |-> "A"],
    [user |-> "B"],
    <<>> }

Queries ==
  { <<>>,
    [completed |-> "true", limit |-> <<1>>],
    [completed |-> "yes"],
    [priority |-> "high", sort |-> <<"createdAt">>, skip |-> <<1>>],
    [limit |-> <<0>>],
    [sort |-> <<"priority">>, limit |-> <<1>>, skip |-> <<1>>] }

RequestIds == 0..MaxTasks

\* The bodies and queries of the requests that run beside a GET.
QueryPostBodies ==
  { [title |-> A1] }

QueryPutBodies ==
  { [completed |-> TRUE, priority |-> "high"],
    [user |-> "B"] }

\* Every request of the API, GET in its two steps.
Next ==
  \/ \E u \in Users, body \in QueryPostBodies : Post(u, body)
  \/ \E u \in Users, id \in TaskIds, body \in QueryPutBodies : Put(u, id, body)
  \/ \E u \in Users, id \in TaskIds : Delete(u, id)
  \/ \E u \in Users, q \in Queries : GetFind(u, q)
  \/ GetCount

Spec == Init /\ [][Next]_vars

\* The requests by which callers create, complete and delete their own tasks
\* beside a GET.
NextRace ==
  \/ \E u \in Users, body \in QueryPostBodies : Post(u, body)
  \/ \E u \in Users, id \in TaskIds :
       Put(u, id, [completed |-> TRUE, priority |-> "high"])
  \/ \E u \in Users, id \in TaskIds : Delete(u, id)
  \/ \E u \in Users, q \in Queries : GetFind(u, q)
  \/ GetCount

SpecRace == Init /\ [][NextRace]_vars

\* The requests that change the store, over every kind of body.
NextMutate ==
  \/ \E u \in Users, body \in PostBodies : Post(u, body)
  \/ \E u \in Users, id \in RequestIds, body \in PutBodies : Put(u, id, body)
  \/ \E u \in Users, id \in RequestIds : Delete(u, id)

SpecMutate == Init /\ [][NextMutate]_vars

(***************************************************************************)
(* The Dashboard page (frontend/src/pages/Dashboard.jsx)                   *)
(*                                                                         *)
(* A JavaScript array is [array |-> <<...>>]; any other object is the      *)
(* record of its properties.  handleUpdateTask and handleDeleteTask are    *)
(* reached only from the Edit and Delete buttons of a row TaskList has     *)
(* rendered; no state of this page renders a row (DashNoRows), so they     *)
(* never run and are not actions here.                                     *)
(***************************************************************************)
\* The user the auth middleware finds behind the Dashboard's token.
DashUser == "A"

IsArray(v) == DOMAIN v = {"array"}

\* response.data: the JSON body res.json() was given.
Data(r) ==
  [success |-> r.status < 400]
  @@ [f \in DOMAIN r \ {"op", "user", "id", "body", "q", "status"} |-> r[f]]

\* Whether the page renders: "Loading..." while loading; afterwards TaskList
\* calls tasks.filter and reads task.title.toLowerCase() of every element, and
\* an exception while rendering takes the page down.
Renders(d) ==
  d.loading \/ (/\ IsArray(d.tasks)
                /\ \A k \in DOMAIN d.tasks.array : "title" \in DOMAIN d.tasks.array[k])

\* The rows TaskList shows, each with an Edit and a Delete button.
Rows(d) ==
  IF d.mounted /\ ~d.loading /\ ~d.crashed /\ IsArray(d.tasks)
  THEN {d.tasks.array[k] : k \in DOMAIN d.tasks.array}
  ELSE {}

NoReply == [none |-> TRUE]

Call(k, handler, tasks, data) ==
  [k |-> k, handler |-> handler, tasks |-> tasks, data |-> data,
   stage |-> "sent", status |-> 0, reply |-> NoReply]

Replied(c, status, reply) ==
  [c EXCEPT !.stage = "replied", !.status = status, !.reply = reply]

\* useEffect(() => { fetchTasks() }, []): the first render starts the fetch.
Mount ==
  /\ ~dash.mounted
  /\ dash' = [dash EXCEPT !.mounted = TRUE]
  /\ calls' = calls \cup {Call(0, "fetchTasks", NoReply, <<>>)}
  /\ UNCHANGED <<store, nextId, get, resp, api>>

\* The server runs the find of axios.get('/api/tasks').
FetchFind(c) ==
  /\ c.handler = "fetchTasks" /\ c.stage = "sent"
  /\ GetFindReq(DashUser, c.data)
  /\ calls' = (calls \ {c}) \cup {[c EXCEPT !.stage = "finding"]}
  /\ UNCHANGED <<dash, api>>

\* The server counts and answers.
FetchCount(c) ==
  /\ c.handler = "fetchTasks" /\ c.stage = "finding"
  /\ GetCountReq
  /\ calls' = (calls \ {c}) \cup {Replied(c, resp'.status, Data(resp'))}
  /\ UNCHANGED <<dash, api>>

\* The request does not reach the server, and axios rejects.
FetchLost(c) ==
  /\ c.handler = "fetchTasks" /\ c.stage = "sent"
  /\ calls' = (calls \ {c}) \cup {Replied(c, 0, NoReply)}
  /\ UNCHANGED <<store, nextId, get, resp, dash, api>>

\* fetchTasks after its await: setTasks(response.data), or the catch block;
\* then setLoading(false).
FetchTasksDone(c) ==
  /\ c.handler = "fetchTasks" /\ c.stage = "replied"
  /\ LET ok == c.status = 200
         d == [dash EXCEPT !.tasks = IF ok THEN c.reply ELSE @,
                           !.loading = FALSE,
                           !.failed = @ \/ ~ok]
     IN  dash' = [d EXCEPT !.crashed = ~Renders(d)]
  /\ calls' = calls \ {c}
  /\ UNCHANGED <<store, nextId, get, resp, api>>

\* TaskForm.validateForm: title and description must not be blank.
FormValid(data) == StrLen(Trim(data.title)) > 0 /\ StrLen(Trim(data.description)) > 0

\* TaskForm submits to handleAddTask, which captures the tasks of the render
\* it belongs to and sends the POST.
HandleAddTask(k, data) ==
  /\ dash.mounted /\ ~dash.loading /\ ~dash.crashed
  /\ FormValid(data)
  /\ \A c \in calls : c.k # k
  /\ calls' = calls \cup {Call(k, "handleAddTask", dash.tasks, data)}
  /\ UNCHANGED <<store, nextId, get, resp, dash, api>>

\* The server handles the POST and answers.
AddServe(c) ==
  /\ c.handler = "handleAddTask" /\ c.stage = "sent"
  /\ PostReq(DashUser, c.data)
  /\ calls' = (calls \ {c}) \cup {Replied(c, resp'.status, Data(resp'))}
  /\ UNCHANGED <<get, dash, api>>

\* handleAddTask after its await: setTasks([...tasks, response.data]) on a 2xx
\* answer (spreading an object that is no array throws into the catch block),
\* the catch block otherwise.  A page that is down takes no state update.
AddTaskDone(c) ==
  /\ c.handler = "handleAddTask" /\ c.stage = "replied"
  /\ LET ok == c.status = 201
         d == [dash EXCEPT !.tasks = IF ok /\ ~dash.crashed /\ IsArray(c.tasks)
                                     THEN [array |-> Append(c.tasks.array, c.reply)]
                                     ELSE @,
                           !.failed = @ \/ ~ok]
     IN  dash' = [d EXCEPT !.crashed = @ \/ ~Renders(d)]
  /\ calls' = calls \ {c}
  /\ UNCHANGED <<store, nextId, get, resp, api>>

D1 == <<Run("d", 1)>>

\* What the form can hold when it is submitted.
FormInputs ==
  { [title |-> A1, description |-> D1, completed |-> FALSE],
    [title |-> <<Run("a", 101)>>, description |-> D1, completed |-> TRUE],
    [title |-> A1, description |-> <<Run(Space, 1)>>, completed |-> FALSE] }

\* The Dashboard beside the requests of other clients.
NextDash ==
  \/ Mount
  \/ \E c \in calls : FetchFind(c)
  \/ \E c \in calls : FetchCount(c)
  \/ \E c \in calls : FetchLost(c)
  \/ \E c \in calls : FetchTasksDone(c)
  \/ \E k \in 1..MaxCalls, data \in FormInputs : HandleAddTask(k, data)
  \/ \E c \in calls : AddServe(c)
  \/ \E c \in calls : AddTaskDone(c)
  \/ \E u \in Users, body \in QueryPostBodies : Post(u, body)
  \/ \E u \in Users, id \in TaskIds : Delete(u, id)

SpecDash == Init /\ [][NextDash]_vars

\* No row is ever rendered.
DashNoRows == Rows(dash) = {}

(***************************************************************************)
(* The useApi hook (frontend/src/hooks/useApi.js)                          *)
(*                                                                         *)
(* One hook instance holds loading and error; every makeRequest call of    *)
(* it shares them.  A call is in flight from its first line to the end of  *)
(* its finally block.  Whether the awaited axios call resolves or rejects, *)
(* and with what, is the server's and the network's choice.                *)
(***************************************************************************)
\* The requests callers make: method and url.
Requests ==
  { [method |-> "get", url |-> "/api/tasks"],
    [method |-> "post", url |-> "/api/tasks"],
    [method |-> "put", url |-> "/api/tasks/1"],
    [method |-> "delete", url |-> "/api/tasks/1"] }

\* The errors axios rejects with: with a response that carries the server's
\* message, with a response that carries none, and with no response at all.
AxiosErrors ==
  { [message |-> "Request failed with status code 404",
     response |-> [data |-> [message |-> "Task not found"]]],
    [message |-> "Request failed with status code 400",
     response |-> [data |-> [message |-> "Validation failed"]]],
    [message |-> "Request failed with status code 502",
     response |-> [data |-> [html |-> TRUE]]],
    [message |-> "Network Error"] }

\* err.response?.data?.message || err.message
ErrorMessage(err) ==
  IF "response" \in DOMAIN err /\ "message" \in DOMAIN err.response.data
  THEN err.response.data.message
  ELSE err.message

InFlight == {k \in RequestSlots : api.inflight[k] # NoCall}

\* makeRequest up to its await: setLoading(true), setError(null), the
\* request is sent.
MakeRequest(k, r) ==
  /\ api.inflight[k] = NoCall
  /\ api' = [loading |-> TRUE, error |-> NoError,
             inflight |-> [api.inflight EXCEPT ![k] = r]]
  /\ UNCHANGED <<store, nextId, get, resp, dash, calls>>

\* The axios call resolves: return response.data, then the finally block.
MakeRequestReturns(k) ==
  /\ api.inflight[k] # NoCall
  /\ api' = [api EXCEPT !.loading = FALSE, !.inflight[k] = NoCall]
  /\ UNCHANGED <<store, nextId, get, resp, dash, calls>>

\* The axios call rejects: the catch block, then the finally block.
MakeRequestThrows(k, err) ==
  /\ api.inflight[k] # NoCall
  /\ api' = [loading |-> FALSE, error |-> [message |-> ErrorMessage(err)],
             inflight |-> [api.inflight EXCEPT ![k] = NoCall]]
  /\ UNCHANGED <<store, nextId, get, resp, dash, calls>>

NextApi ==
  \/ \E k \in RequestSlots, r \in Requests : MakeRequest(k, r)
  \/ \E k \in RequestSlots : MakeRequestReturns(k)
  \/ \E k \in RequestSlots, err \in AxiosErrors : MakeRequestThrows(k, err)

SpecApi == Init /\ [][NextApi]_vars

(***************************************************************************)
(* Properties of the task API                                              *)
(***************************************************************************)
IsGetResp == resp.op = "GET"

\* C1: every task list GET /tasks returns to a user holds only tasks whose
\* owner is that user, whatever the query parameters and whatever requests
\* ran before or beside it.
C1_OnlyOwnTasks ==
  /\ IsGetResp => \A k \in DOMAIN resp.tasks : resp.tasks[k].user = resp.user
  /\ get # NoGet => \A k \in DOMAIN get.tasks : get.tasks[k].user = get.user

\* A list that is not empty was returned to a user while the other user had
\* tasks.
C1_Witness ==
  /\ IsGetResp
  /\ resp.tasks # <<>>
  /\ \E i \in TaskIds : store[i] # NoTask /\ store[i].user # resp.user

\* C2: the owner of a task never changes after creation, whatever bodies
\* PUT /tasks/:id is sent.
C2_OwnerImmutable ==
  [][\A i \in TaskIds :
       (store[i] # NoTask /\ store'[i] # NoTask) => store'[i].user = store[i].user]_vars

\* What a response carries beside the request it answers.
Answer(r) == [f \in DOMAIN r \ {"op", "user", "id", "body"} |-> r[f]]

NotFoundAnswer == [status |-> 404, message |-> "Task not found"]

\* The caller has no task of this id: none exists, or it is another user's.
NotCallers(id, u) == id \notin TaskIds \/ store[id] = NoTask \/ store[id].user # u

\* C3: a PUT or DELETE on a well-formed id that does not exist or that is
\* another user's task leaves the store as it is and, once its body has
\* passed validation, answers 404 with the one body {message: 'Task not
\* found'} in both cases.
C3_NotFoundConflated ==
  [][(/\ resp'.op \in {"PUT", "DELETE"}
      /\ resp'.id # 0
      /\ NotCallers(resp'.id, resp'.user))
     => /\ store' = store
        /\ resp'.status \in {400, 404, 500}
        /\ resp'.status = 404 => Answer(resp') = NotFoundAnswer
        /\ resp'.op = "DELETE" => resp'.status = 404
        /\ (/\ resp'.op = "PUT"
            /\ PutErrors(resp'.id, resp'.body) = {}
            /\ ("title" \in DOMAIN resp'.body => StrLen(Trim(resp'.body.title)) > 0))
           => resp'.status = 404]_vars

\* A PUT on another user's task was answered 404 and the task is still there.
C3_Witness ==
  /\ resp.op = "PUT"
  /\ resp.status = 404
  /\ resp.id \in TaskIds
  /\ store[resp.id] # NoTask
  /\ store[resp.id].user # resp.user

\* The id was given to a task that is no longer in the store.
Gone(i) == i < nextId /\ store[i] = NoTask

\* C4: once DELETE /tasks/:id has answered 200 the task is gone for good: it
\* is out of the store, it never comes back, no GET that reads the store
\* afterwards returns it, and every later PUT or DELETE on it answers 404.
C4_DeletedForGood ==
  /\ []((resp.op = "DELETE" /\ resp.status = 200) => Gone(resp.id))
  /\ [][\A i \in TaskIds : Gone(i) =>
          /\ store'[i] = NoTask
          /\ (get = NoGet /\ get' # NoGet)
               => \A k \in DOMAIN get'.tasks : get'.tasks[k]._id # i
          /\ \A u \in Users :
               /\ Delete(u, i) => resp'.status = 404
               /\ \A body \in QueryPutBodies : Put(u, i, body) => resp'.status = 404]_vars

\* A PUT or DELETE on a deleted task was answered 404.
C4_Witness ==
  /\ resp.op \in {"PUT", "DELETE"}
  /\ resp.status = 404
  /\ resp.id \in TaskIds
  /\ Gone(resp.id)

\* The filter of a query as the specification words it.
SatisfiesFilter(task, q) ==
  /\ "completed" \in DOMAIN q => task.completed = (q.completed = "true")
  /\ "priority" \in DOMAIN q => task.priority = q.priority

\* C5: for every GET /tasks with non-negative integer limit and skip, limit 0
\* included, the page holds at most limit tasks, each satisfying the filter,
\* and is exactly the matching tasks in sort order after the first skip.
C5_PageOfLimit ==
  [][(get = NoGet /\ get' # NoGet) =>
       LET page == get'.tasks
           q == get'.q
           limit == LimitOf(q)
           skip == SkipOf(q)
           ids == {i \in TaskIds : /\ store[i] # NoTask
                                   /\ store[i].user = get'.user
                                   /\ SatisfiesFilter(store[i], q)}
       IN  /\ Len(page) <= limit
           /\ \A k \in DOMAIN page : SatisfiesFilter(page[k], q)
           /\ \E o \in Orders(ids, SortOf(q)) :
                /\ Len(page) = Min(limit, IF Len(o) > skip THEN Len(o) - skip ELSE 0)
                /\ \A k \in DOMAIN page : page[k] = store[o[skip + k]]]_vars

\* C6: in every 200 response of GET /tasks, hasMore is true exactly when
\* total > skip + limit, limit being 10 and skip 0 when omitted.
C6_HasMore ==
  IsGetResp =>
    LET p == resp.pagination
    IN  /\ p.limit = (IF "limit" \in DOMAIN resp.q THEN ParseInt(resp.q.limit) ELSE 10)
        /\ p.skip = (IF "skip" \in DOMAIN resp.q THEN ParseInt(resp.q.skip) ELSE 0)
        /\ p.hasMore = (p.total > p.skip + p.limit)

\* A response to a GET with a positive limit said there is more, the total
\* being one past the page.
C6_Witness ==
  /\ IsGetResp
  /\ resp.pagination.hasMore
  /\ resp.pagination.limit >= 1
  /\ resp.pagination.total = resp.pagination.skip + resp.pagination.limit + 1

\* C7: POST /tasks checks the length of the trimmed title: outside 1..100 it
\* answers 400 with an errors entry for title, within 1..100 it answers 201
\* and stores the title trimmed.
C7_TitleCheckedTrimmed ==
  (/\ resp.op = "POST"
   /\ "priority" \in DOMAIN resp.body => resp.body.priority \in Priorities)
  => LET t == Trim(FieldStr(resp.body, "title"))
     IN  IF StrLen(t) >= 1 /\ StrLen(t) <= 100
         THEN resp.status = 201 /\ resp.task.title = t
         ELSE resp.status = 400 /\ "title" \in resp.errors

\* The value a PUT body gives a field, as the route hands it to the store.
Supplied(body, f) == IF f = "title" THEN Trim(body[f]) ELSE body[f]

EditablePaths == {"title", "completed", "priority", "user"}

\* C8: PUT requests by the owner of a task are applied one at a time, each
\* to the task as the one before left it: a field the request supplies takes
\* its value, every other field keeps the value it had (that of the request
\* applied before, if that one supplied it), no other task changes, and the
\* request answers 200 with the task as it now is.
C8_LastWriteWins ==
  [][(/\ resp'.op = "PUT"
      /\ resp'.id \in TaskIds
      /\ ~NotCallers(resp'.id, resp'.user)
      /\ PutErrors(resp'.id, resp'.body) = {}
      /\ ("title" \in DOMAIN resp'.body => StrLen(Trim(resp'.body.title)) > 0))
     => LET id == resp'.id
            body == resp'.body
        IN  /\ resp'.status = 200
            /\ resp'.task = store'[id]
            /\ \A i \in TaskIds \ {id} : store'[i] = store[i]
            /\ store'[id]._id = id
            /\ store'[id].createdAt = store[id].createdAt
            /\ \A f \in EditablePaths :
                 store'[id][f] = IF f \in DOMAIN body THEN Supplied(body, f)
                                 ELSE store[id][f]
            /\ (/\ resp.op = "PUT" /\ resp.status = 200 /\ resp.id = id)
               => \A f \in EditablePaths \ DOMAIN body :
                    f \in DOMAIN resp.body => store'[id][f] = Supplied(resp.body, f)]_vars

\* A PUT that supplies only the priority was applied to a task an earlier PUT
\* had completed, and the task is still completed.
C8_Witness ==
  /\ resp.op = "PUT"
  /\ resp.status = 200
  /\ resp.body = [priority |-> "medium"]
  /\ resp.task.completed
  /\ store[resp.id] = resp.task

\* C9: the page and the total of one GET /tasks response describe one state
\* of the store: a page that is not empty ends within the total.
C9_PageWithinTotal ==
  (IsGetResp /\ resp.tasks # <<>>)
  => resp.pagination.skip + Len(resp.tasks) <= resp.pagination.total

\* The caller's tasks on the server.
ServerTasks(u) == {store[i] : i \in {j \in TaskIds : store[j] # NoTask /\ store[j].user = u}}

\* C10: once every request the Dashboard started has completed successfully,
\* its tasks state is a list of task records, the caller's tasks on the
\* server.
C10_TasksMirrorServer ==
  (dash.mounted /\ calls = {} /\ ~dash.failed)
  => /\ IsArray(dash.tasks)
     /\ {dash.tasks.array[k] : k \in DOMAIN dash.tasks.array} = ServerTasks(DashUser)
     /\ Len(dash.tasks.array) = Cardinality(ServerTasks(DashUser))

(***************************************************************************)
(* Properties of the useApi hook                                           *)
(***************************************************************************)
\* A makeRequest call starts in this step.
CallStarts == \E k \in RequestSlots : api.inflight[k] = NoCall /\ api'.inflight[k] # NoCall

\* C11: loading is true exactly while at least one makeRequest call is in
\* flight, also when calls overlap, and the message a failed call left in
\* error stays there until the next call starts.
C11_LoadingWhileInFlight ==
  /\ [](api.loading <=> InFlight # {})
  /\ [][(api.error # NoError /\ ~CallStarts) => api'.error = api.error]_vars

====
